---- MODULE Spec2Model ----
(***************************************************************************)
(* Model of the json_to_xml crate (src/src/generate_xml.rs and             *)
(* src/src/xml_utils.rs): the recursive transcoder from a serde_json Value *)
(* to the sequence of quick_xml events the Writer receives.                *)
(*                                                                         *)
(* Strings that the code inspects character by character (keys, tags, the  *)
(* root name, text) are sequences of one-character strings, so that        *)
(* capitalize_word, starts_with("@"), &key[1..] and tag + "Item" are       *)
(* computed as the code computes them.                                     *)
(*                                                                         *)
(* A JSON value is a tagged tuple:                                         *)
(*   <<"null">>  <<"bool", b>>  <<"num", n>>  <<"str", s>>                 *)
(*   <<"arr", items>>  <<"obj", entries>>                                  *)
(* where entries is the sequence of <<key, value>> pairs in the order the  *)
(* serde_json Map iterates them.                                           *)
(*                                                                         *)
(* An event is <<"decl", ver, enc>>, <<"comment", text>>,                  *)
(* <<"start", name, attrs>>, <<"empty", name, attrs>>, <<"end", name>> or  *)
(* <<"text", s>>; attrs is the sequence of <<name, value>> pairs pushed on *)
(* the BytesStart.                                                         *)
(***************************************************************************)
EXTENDS Integers, Sequences, FiniteSets, TLC

VARIABLES
    json,      \* the parsed json_string (or Malformed when from_str fails)
    cargo,     \* what fs::read_to_string("Cargo.toml") and the toml parser find
    seed,      \* the iteration order of the attributes HashMap in this run
    root,      \* the root argument of the call (<<>> before the call)
    result,    \* the Result returned by the call
    pc         \* "start" before the call, "done" after it

vars == <<json, cargo, seed, root, result, pc>>

----------------------------------------------------------------------------
(* Bounds of the input space.                                              *)

\* longest array enumerated among the inputs
MaxArrLen == 3

\* how many times an input is wrapped in an enclosing object
MaxWrap == 1

----------------------------------------------------------------------------
(* Strings.                                                                *)

LowerCase == <<"a","b","c","d","e","f","g","h","i","j","k","l","m",
               "n","o","p","q","r","s","t","u","v","w","x","y","z">>
UpperCase == <<"A","B","C","D","E","F","G","H","I","J","K","L","M",
               "N","O","P","Q","R","S","T","U","V","W","X","Y","Z">>

\* char::to_uppercase on the characters the inputs use
to_uppercase(c) ==
    IF \E i \in 1..Len(LowerCase) : LowerCase[i] = c
    THEN UpperCase[CHOOSE i \in 1..Len(LowerCase) : LowerCase[i] = c]
    ELSE c

\* str::starts_with("@")
starts_with_at(key) == Len(key) > 0 /\ key[1] = "@"

capitalize_word(word) ==
    IF Len(word) = 0 THEN <<>>
    ELSE <<to_uppercase(Head(word))>> \o Tail(word)

RECURSIVE Digits(_)
Digits(n) ==
    IF n < 10 THEN <<(<<"0","1","2","3","4","5","6","7","8","9">>)[n + 1]>>
    ELSE Digits(n \div 10) \o Digits(n % 10)

\* serde_json Number::to_string for an integer
num_to_string(n) == IF n < 0 THEN <<"-">> \o Digits(0 - n) ELSE Digits(n)

\* bool::to_string
bool_to_string(b) == IF b THEN <<"t","r","u","e">> ELSE <<"f","a","l","s","e">>

TextKey == <<"$","t","e","x","t">>
ItemSuffix == <<"I","t","e","m">>
NoneTag == <<"N","o","n","e">>

----------------------------------------------------------------------------
(* serde_json values.                                                      *)

Null == <<"null">>
Bool(b) == <<"bool", b>>
Num(n) == <<"num", n>>
Str(s) == <<"str", s>>
Arr(items) == <<"arr", items>>
Obj(entries) == <<"obj", entries>>
Malformed == <<"malformed">>

is_object(v) == v[1] = "obj"
is_array(v) == v[1] = "arr"
is_str(v) == v[1] = "str"
is_empty_object(v) == is_object(v) /\ Len(v[2]) = 0

\* Map::get(key): the value of the entry with that key, as a set (empty = None)
map_get(entries, key) == {entries[i][2] : i \in {j \in 1..Len(entries) : entries[j][1] = key}}

----------------------------------------------------------------------------
(* quick_xml events, as xml_utils.rs hands them to Writer::write_event.    *)

write_declaration(ver, enc) == <<"decl", ver, enc>>
write_comment(text) == <<"comment", text>>
write_start_tag(name, attrs) == <<"start", name, attrs>>
write_empty_tag(name, attrs) == <<"empty", name, attrs>>
write_end_tag(name) == <<"end", name>>
write_content(s) == <<"text", s>>

----------------------------------------------------------------------------
(* The transcoder, generate_xml.rs.  Every operator returns the sequence   *)
(* of events the function writes, in order.                                *)

RECURSIVE Concat(_)
Concat(seqs) == IF Len(seqs) = 0 THEN <<>> ELSE Head(seqs) \o Concat(Tail(seqs))

Reverse(s) == [i \in 1..Len(s) |-> s[Len(s) + 1 - i]]

\* is_attribute_key: an object with some key starting with "@"
is_attribute_key(value) ==
    is_object(value) /\ \E i \in 1..Len(value[2]) : starts_with_at(value[2][i][1])

\* is_array_with_attribute_key: an array whose first element is such an object
is_array_with_attribute_key(value) ==
    is_array(value) /\ Len(value[2]) > 0 /\ is_attribute_key(value[2][1])

has_top_level_attributes(v) ==
    is_object(v) /\ \E i \in 1..Len(v[2]) : starts_with_at(v[2][i][1])

contains_objects_and_primitives(arr) ==
    /\ \E i \in 1..Len(arr) : is_object(arr[i])
    /\ \E i \in 1..Len(arr) : ~is_object(arr[i])

\* The attributes HashMap of handle_object: the "@" entries under the key
\* without its "@", iterated in the order this run's hasher gives.
attributes_of(entries) ==
    LET IsAt(e) == starts_with_at(e[1])
        picked == SelectSeq(entries, IsAt)
        stripped == [i \in 1..Len(picked) |-> <<Tail(picked[i][1]), picked[i][2]>>]
    IN  IF seed = 0 THEN stripped ELSE Reverse(stripped)

\* element.push_attribute for the attributes whose value is a string
pushed_attributes(attributes) ==
    LET IsString(a) == is_str(a[2])
        strs == SelectSeq(attributes, IsString)
    IN  [i \in 1..Len(strs) |-> <<strs[i][1], strs[i][2][2]>>]

RECURSIVE create_xml_element(_, _), handle_object(_, _), handle_entry(_, _),
          handle_array(_, _), array_loop(_, _, _, _), handle_object_array(_, _, _)

\* create_xml_element with the null tag named after the enclosing key
create_xml_element_keyed_null(json_data, parent_tag) ==
    CASE is_object(json_data) -> handle_object(json_data[2], parent_tag)
      [] is_array(json_data) -> handle_array(json_data[2], parent_tag)
      [] json_data[1] = "str" -> <<write_content(json_data[2])>>
      [] json_data[1] = "num" -> <<write_content(num_to_string(json_data[2]))>>
      [] json_data[1] = "bool" -> <<write_content(bool_to_string(json_data[2]))>>
      [] json_data[1] = "null" -> <<write_empty_tag(capitalize_word(parent_tag), <<>>)>>

create_xml_element(json_data, parent_tag) ==
    CASE is_object(json_data) -> handle_object(json_data[2], parent_tag)
      [] is_array(json_data) -> handle_array(json_data[2], parent_tag)
      [] json_data[1] = "str" -> <<write_content(json_data[2])>>
      [] json_data[1] = "num" -> <<write_content(num_to_string(json_data[2]))>>
      [] json_data[1] = "bool" -> <<write_content(bool_to_string(json_data[2]))>>
      [] json_data[1] = "null" -> <<write_empty_tag(NoneTag, <<>>)>>

\* handle_entry without the empty-object shortcut of lines 233-236
handle_entry_without_empty_check(key, value) ==
    LET key_tag == capitalize_word(key)
    IN  IF starts_with_at(key) \/ key = TextKey THEN <<>>
        ELSE (IF ~(is_attribute_key(value) \/ is_array_with_attribute_key(value))
              THEN <<write_start_tag(key_tag, <<>>)>> ELSE <<>>)
             \o create_xml_element(value, key)
             \o (IF ~is_array(value) THEN <<write_end_tag(key_tag)>> ELSE <<>>)

\* One iteration of the loop `for (key, value) in map` of handle_object.
handle_entry(key, value) ==
    LET key_tag == capitalize_word(key)
    IN  IF is_empty_object(value) THEN <<write_empty_tag(key_tag, <<>>)>>
        ELSE IF starts_with_at(key) \/ key = TextKey THEN <<>>
        ELSE (IF ~(is_attribute_key(value) \/ is_array_with_attribute_key(value))
              THEN <<write_start_tag(key_tag, <<>>)>> ELSE <<>>)
             \o create_xml_element(value, key)
             \o (IF ~is_array(value) THEN <<write_end_tag(key_tag)>> ELSE <<>>)

\* handle_object writing the $text content after the loop over the keys
handle_object_text_last(map, parent_tag) ==
    LET tag == capitalize_word(parent_tag)
        attributes == attributes_of(map)
        text == {v \in map_get(map, TextKey) : is_str(v)}
    IN  (IF Len(attributes) > 0
         THEN <<write_start_tag(tag, pushed_attributes(attributes))>> ELSE <<>>)
        \o Concat([i \in 1..Len(map) |-> handle_entry(map[i][1], map[i][2])])
        \o (IF text # {} THEN <<write_content((CHOOSE v \in text : TRUE)[2])>> ELSE <<>>)

handle_object(map, parent_tag) ==
    LET tag == capitalize_word(parent_tag)
        attributes == attributes_of(map)
        text == {v \in map_get(map, TextKey) : is_str(v)}
    IN  (IF Len(attributes) > 0
         THEN <<write_start_tag(tag, pushed_attributes(attributes))>> ELSE <<>>)
        \o (IF text # {} THEN <<write_content((CHOOSE v \in text : TRUE)[2])>> ELSE <<>>)
        \o Concat([i \in 1..Len(map) |-> handle_entry(map[i][1], map[i][2])])

handle_object_array(index, value, parent_tag) ==
    IF is_object(value) /\ Len(value[2]) > 0
    THEN LET first_key == value[2][1][1]
         IN  (IF ~starts_with_at(first_key) /\ index > 0
              THEN <<write_start_tag(parent_tag, <<>>)>> ELSE <<>>)
             \o create_xml_element(value, parent_tag)
             \o <<write_end_tag(parent_tag)>>
    ELSE <<>>

\* The loop of handle_array from 0-based index i on; parent_tag is the
\* loop's mutable variable as it stands when iteration i begins.
array_loop(arr, i, parent_tag, original_tag) ==
    IF i >= Len(arr) THEN <<>>
    ELSE LET value == arr[i + 1]
             item_tag == original_tag \o ItemSuffix
             mixed_array == contains_objects_and_primitives(arr)
             last == (i = Len(arr) - 1)
             tag_after == IF is_object(value)
                          THEN (IF i = 0 /\ mixed_array THEN item_tag ELSE parent_tag)
                          ELSE item_tag
             body == IF is_object(value)
                     THEN (IF i = 0 /\ mixed_array
                           THEN <<write_start_tag(tag_after, <<>>)>> ELSE <<>>)
                          \o handle_object_array(i, value, tag_after)
                     ELSE <<write_start_tag(tag_after, <<>>)>>
                          \o create_xml_element(value, original_tag)
                          \o <<write_end_tag(tag_after)>>
                          \o (IF last THEN <<write_end_tag(original_tag)>> ELSE <<>>)
             closing == IF last /\ is_object(value) /\ mixed_array
                        THEN <<write_end_tag(original_tag)>> ELSE <<>>
         IN  body \o closing \o array_loop(arr, i + 1, tag_after, original_tag)

handle_array(arr, parent_tag) ==
    LET tag == capitalize_word(parent_tag)
    IN  IF Len(arr) = 0 THEN <<write_end_tag(tag)>>
        ELSE array_loop(arr, 0, tag, tag)

----------------------------------------------------------------------------
(* The entry points.                                                       *)

Ok(v) == <<"Ok", v>>
Err(e) == <<"Err", e>>

\* What get_dependency_version finds in Cargo.toml:
\*   readable: fs::read_to_string succeeds;  parses: the toml parser succeeds;
\*   dep: the entry dependencies.json_to_xml ("absent", "string",
\*        "table_version" = a table with a string version, "table_other");
\*   pkg: the entry package.version ("absent", "string", "other").
CargoFile(readable, parses, dep, pkg) == <<readable, parses, dep, pkg>>

DepVersion == "0.1.7"
PkgVersion == "0.1.8"

get_dependency_version(file) ==
    IF ~file[1] THEN Err("Io")
    ELSE IF ~file[2] THEN Err("Toml")
    ELSE IF file[3] \in {"table_version", "string"} THEN Ok(DepVersion)
    ELSE IF file[4] = "string" THEN Ok(PkgVersion)
    ELSE Err("Toml")

json_to_xml_with_root(json_value, root_name) ==
    IF json_value = Malformed THEN Err("Json")
    ELSE LET version == get_dependency_version(cargo)
         IN  IF version[1] = "Err" THEN version
             ELSE Ok(<<write_declaration("1.0", "UTF-8"),
                       write_comment("Generated with json_to_xml " \o version[2])>>
                     \o create_xml_element(json_value, root_name)
                     \o (IF has_top_level_attributes(json_value)
                         THEN <<write_end_tag(root_name)>> ELSE <<>>))

DefaultRoot == <<"R","o","o","t">>

----------------------------------------------------------------------------
(* The inputs: JSON texts as serde_json parses them.  The Map iterates its *)
(* keys in ascending byte order ("$text" < "@..." < letters), the order of *)
(* the documented output of json_to_xml (generate_xml.rs, lines 20-45).    *)

EmptyObj == Obj(<<>>)
EmptyArr == Arr(<<>>)

K_id == <<"@","i","d">>
K_type == <<"@","t","y","p","e">>
K_a == <<"a">>
K_b == <<"b">>
K_k == <<"k">>

Scalars == {Str(<<"s">>), Num(42), Bool(TRUE), Null}

\* The objects with any of the keys $text, @id, @type, a, b, in Map order.
Opt(key, values) == {<<>>} \cup {<<<<key, v>>>> : v \in values}

InnerObjects ==
    {Obj(t \o i \o y \o a \o b) :
        t \in Opt(TextKey, {Str(<<"t">>), Num(42), Null, EmptyObj}),
        i \in Opt(K_id, {Str(<<"1">>), Num(42), Null, EmptyObj, Arr(<<Str(<<"s">>)>>)}),
        y \in Opt(K_type, {Str(<<"x">>)}),
        a \in Opt(K_a, {Str(<<"s">>), Null, EmptyObj, EmptyArr}),
        b \in Opt(K_b, {Str(<<"s">>), EmptyArr})}

Elements ==
    {Str(<<"s">>), Null, EmptyArr, Arr(<<Str(<<"s">>)>>),
     EmptyObj,
     Obj(<<<<K_a, Str(<<"s">>)>>>>),
     Obj(<<<<K_id, Str(<<"1">>)>>, <<K_a, Str(<<"s">>)>>>>),
     Obj(<<<<TextKey, Str(<<"t">>)>>, <<K_id, Str(<<"1">>)>>>>)}

Arrays == {Arr(items) : items \in UNION {[1..n -> Elements] : n \in 0..MaxArrLen}}

\* v as the value of key k of an enclosing object, without or with an "@id"
Wrap(v, attr) ==
    IF attr THEN Obj(<<<<K_id, Str(<<"1">>)>>, <<K_k, v>>>>) ELSE Obj(<<<<K_k, v>>>>)

RECURSIVE Wrapped(_, _)
Wrapped(v, attrs) ==
    IF Len(attrs) = 0 THEN v ELSE Wrap(Wrapped(v, Tail(attrs)), Head(attrs))

BaseValues == Scalars \cup InnerObjects \cup Arrays

Wrappings == UNION {[1..n -> BOOLEAN] : n \in 0..MaxWrap}

Roots == {<<"r","o","o","t">>, <<"P","e","o","p","l","e">>}

\* Cargo.toml of the crate itself: a package section with a version.
CrateCargo == CargoFile(TRUE, TRUE, "absent", "string")

----------------------------------------------------------------------------
(* The state machine: one call of a public entry point on one input.       *)

Init ==
    /\ \/ \E v \in BaseValues, w \in Wrappings : json = Wrapped(v, w)
       \/ json = Malformed
    /\ cargo = CrateCargo
    /\ seed \in {0, 1}
    /\ root = <<>>
    /\ result = <<"none">>
    /\ pc = "start"

\* json_to_xml(json_string)
JsonToXml ==
    /\ pc = "start"
    /\ root' = DefaultRoot
    /\ result' = json_to_xml_with_root(json, DefaultRoot)
    /\ pc' = "done"
    /\ UNCHANGED <<json, cargo, seed>>

\* json_to_xml_with_root(json_string, root)
JsonToXmlWithRoot ==
    /\ pc = "start"
    /\ \E r \in Roots :
        /\ root' = r
        /\ result' = json_to_xml_with_root(json, r)
    /\ pc' = "done"
    /\ UNCHANGED <<json, cargo, seed>>

Next == JsonToXml \/ JsonToXmlWithRoot

Spec == Init /\ [][Next]_vars

\* The Cargo.toml files the working directory can hold: none that can be
\* read, one the toml parser rejects, or a parsed one with any combination
\* of the two entries get_dependency_version looks up.
CargoFiles ==
    {CargoFile(FALSE, FALSE, "absent", "absent"), CargoFile(TRUE, FALSE, "absent", "absent")}
    \cup {CargoFile(TRUE, TRUE, dep, pkg) :
             dep \in {"absent", "string", "table_version", "table_other"},
             pkg \in {"absent", "string", "other"}}

\* The same calls, made in a working directory with any of those files.
InitCargo ==
    /\ json \in Scalars \cup Elements \cup {Malformed}
    /\ cargo \in CargoFiles
    /\ seed \in {0, 1}
    /\ root = <<>>
    /\ result = <<"none">>
    /\ pc = "start"

SpecCargo == InitCargo /\ [][Next]_vars

----------------------------------------------------------------------------
(* Reading the output: the tag events of a document and their nesting.     *)

Done == pc = "done" /\ result[1] = "Ok"

\* the events written after the declaration and the comment
Document == SubSeq(result[2], 3, Len(result[2]))

IsStart(e) == e[1] = "start"
IsEmpty(e) == e[1] = "empty"
IsEnd(e) == e[1] = "end"
IsText(e) == e[1] = "text"
IsTag(e) == IsStart(e) \/ IsEmpty(e) \/ IsEnd(e)

Count(events, Test(_)) == Len(SelectSeq(events, Test))

\* Reads events from the i-th on with `stack` the names of the start tags
\* still open, innermost last: <<TRUE, stack left>> when every end tag closed
\* the innermost open start tag of its name, <<FALSE, _>> at the first that
\* does not.
RECURSIVE Nest(_, _, _)
Nest(events, i, stack) ==
    IF i > Len(events) THEN <<TRUE, stack>>
    ELSE LET e == events[i]
         IN  IF IsStart(e) THEN Nest(events, i + 1, Append(stack, e[2]))
             ELSE IF IsEnd(e)
                  THEN IF Len(stack) > 0 /\ stack[Len(stack)] = e[2]
                       THEN Nest(events, i + 1, SubSeq(stack, 1, Len(stack) - 1))
                       ELSE <<FALSE, stack>>
                  ELSE Nest(events, i + 1, stack)

StackBalanced(events) == Nest(events, 1, <<>>) = <<TRUE, <<>>>>

\* the string-valued "@" entries of an object as the set of (name, value) pairs
StringAttributes(entries) ==
    {<<Tail(entries[i][1]), entries[i][2][2]>> :
        i \in {j \in 1..Len(entries) : starts_with_at(entries[j][1]) /\ is_str(entries[j][2])}}

AttrSet(e) == {e[3][i] : i \in 1..Len(e[3])}

----------------------------------------------------------------------------
(* C1: when a conversion of well-formed JSON returns, its start, empty and *)
(* end tag events are stack-balanced: every end tag closes the innermost   *)
(* open start tag of the same name and no start tag is left open.  This    *)
(* covers top-level arrays, arrays in arrays, and empty or attribute-      *)
(* bearing objects in arrays.                                              *)
C1_TagsStackBalanced == Done => StackBalanced(Document)

(* C2: root attribute gating.  Without a top-level "@" key (an array or a  *)
(* primitive included) no start or end tag is named after the root; with   *)
(* one, exactly one start tag named after the root carries the attributes  *)
(* and exactly one end tag named after the root is the last event.         *)
NamedAfterRoot(e) == IsTag(e) /\ ~IsEmpty(e) /\ e[2] \in {root, capitalize_word(root)}
RootStart(e) == IsStart(e) /\ NamedAfterRoot(e)
RootEnd(e) == IsEnd(e) /\ NamedAfterRoot(e)

C2_RootAttributeGating ==
    Done =>
        IF has_top_level_attributes(json)
        THEN /\ Count(Document, RootStart) = 1
             /\ RootStart(Document[1])
             /\ AttrSet(Document[1]) = StringAttributes(json[2])
             /\ Count(Document, RootEnd) = 1
             /\ RootEnd(Document[Len(Document)])
        ELSE Count(Document, NamedAfterRoot) = 0

(* C3: for a top-level object with an "@" key, the enclosing start tag and *)
(* the enclosing end tag both carry capitalize(root), whatever the case of *)
(* the root name's first character.                                        *)
C3_RootTagsCapitalized ==
    (Done /\ has_top_level_attributes(json)) =>
        /\ IsStart(Document[1])
        /\ Document[1][2] = capitalize_word(root)
        /\ IsEnd(Document[Len(Document)])
        /\ Document[Len(Document)][2] = capitalize_word(root)

----------------------------------------------------------------------------
(* The values the conversion visits.                                       *)

IsRegularKey(key) == ~starts_with_at(key) /\ key # TextKey

\* The objects handle_object is called on while v is converted: v itself,
\* the non-empty values of regular keys, the non-empty object elements of
\* arrays, and so on below them.
RECURSIVE RenderedObjects(_)
RenderedObjects(v) ==
    IF is_object(v)
    THEN {v} \cup UNION {RenderedObjects(v[2][i][2]) :
                            i \in {j \in 1..Len(v[2]) : /\ IsRegularKey(v[2][j][1])
                                                        /\ ~is_empty_object(v[2][j][2])}}
    ELSE IF is_array(v)
    THEN UNION {RenderedObjects(v[2][i]) :
                    i \in {j \in 1..Len(v[2]) : ~is_empty_object(v[2][j])}}
    ELSE {}

\* The number of null values among the values the conversion renders.
RECURSIVE RenderedNulls(_)
RenderedNulls(v) ==
    IF v = Null THEN 1
    ELSE IF is_object(v)
    THEN LET n[i \in 0..Len(v[2])] ==
                 IF i = 0 THEN 0
                 ELSE n[i - 1] + (IF IsRegularKey(v[2][i][1]) THEN RenderedNulls(v[2][i][2]) ELSE 0)
         IN  n[Len(v[2])]
    ELSE IF is_array(v)
    THEN LET n[i \in 0..Len(v[2])] ==
                 IF i = 0 THEN 0 ELSE n[i - 1] + RenderedNulls(v[2][i])
         IN  n[Len(v[2])]
    ELSE 0

\* sub occurs in events as a run of consecutive events
Occurs(sub, events) ==
    \E i \in 0..(Len(events) - Len(sub)) : SubSeq(events, i + 1, i + Len(sub)) = sub

----------------------------------------------------------------------------
(* C4: under a regular key K, the value {} is written as exactly the one   *)
(* empty-tag event named capitalize(K), with no start or end tag, and the  *)
(* value [] as exactly a start tag capitalize(K) followed at once by the   *)
(* end tag capitalize(K), with no empty-tag event; never the reverse.      *)
C4_EmptyObjectVsEmptyArray ==
    Done =>
        \A o \in RenderedObjects(json) : \A i \in 1..Len(o[2]) :
            LET K == o[2][i][1]
                v == o[2][i][2]
                written == handle_entry(K, v)
            IN  IsRegularKey(K) =>
                    /\ v = EmptyObj =>
                           /\ written = <<write_empty_tag(capitalize_word(K), <<>>)>>
                           /\ Occurs(written, Document)
                    /\ v = EmptyArr =>
                           /\ written = <<write_start_tag(capitalize_word(K), <<>>),
                                          write_end_tag(capitalize_word(K))>>
                           /\ Occurs(written, Document)

\* a converted object with {} under one regular key and [] under another
C4_Witness ==
    /\ Done
    /\ \E o \in RenderedObjects(json) : \E i, j \in 1..Len(o[2]) :
          /\ IsRegularKey(o[2][i][1]) /\ o[2][i][2] = EmptyObj
          /\ IsRegularKey(o[2][j][1]) /\ o[2][j][2] = EmptyArr
    /\ Occurs(<<write_empty_tag(<<"A">>, <<>>), write_start_tag(<<"B">>, <<>>),
                write_end_tag(<<"B">>)>>, Document)

(* C5: every rendered null (the value of a regular key, an array element   *)
(* at any position, the top-level value) is written as exactly one         *)
(* empty-tag event named None, whatever the key, item tag or root name:    *)
(* the document has as many empty-tag events named None as the input has   *)
(* rendered nulls, every other empty-tag event comes from a {} value, and  *)
(* no start or end tag is named None.                                      *)
IsNoneEmpty(e) == e = write_empty_tag(NoneTag, <<>>)
IsOtherEmpty(e) == IsEmpty(e) /\ ~IsNoneEmpty(e)
NamedNone(e) == (IsStart(e) \/ IsEnd(e)) /\ e[2] = NoneTag

RECURSIVE EmptyObjectValues(_)
EmptyObjectValues(v) ==
    IF is_object(v)
    THEN LET n[i \in 0..Len(v[2])] ==
                 IF i = 0 THEN 0
                 ELSE n[i - 1] + (IF is_empty_object(v[2][i][2]) THEN 1
                                  ELSE IF IsRegularKey(v[2][i][1])
                                       THEN EmptyObjectValues(v[2][i][2]) ELSE 0)
         IN  n[Len(v[2])]
    ELSE IF is_array(v)
    THEN LET n[i \in 0..Len(v[2])] ==
                 IF i = 0 THEN 0 ELSE n[i - 1] + EmptyObjectValues(v[2][i])
         IN  n[Len(v[2])]
    ELSE 0

C5_NullIsNone ==
    Done =>
        /\ Count(Document, IsNoneEmpty) = RenderedNulls(json)
        /\ Count(Document, IsOtherEmpty) = EmptyObjectValues(json)
        /\ Count(Document, NamedNone) = 0

\* nulls under a regular key and in an array, first, in the middle or last
C5_Witness ==
    /\ Done
    /\ is_object(json)
    /\ \E i \in 1..Len(json[2]) :
          /\ IsRegularKey(json[2][i][1])
          /\ is_array(json[2][i][2])
          /\ Len(json[2][i][2][2]) = 3
          /\ json[2][i][2][2][2] = Null
    /\ Count(Document, IsNoneEmpty) >= 1

----------------------------------------------------------------------------
(* Elements of a run of events.                                            *)

\* start tags less end tags among the first i - 1 events
DepthBefore(events, i) ==
    Count(SubSeq(events, 1, i - 1), IsStart) - Count(SubSeq(events, 1, i - 1), IsEnd)

\* the positions of the start and empty tags at nesting depth d, in order
NodesAt(events, d) ==
    LET Opens(i) == (IsStart(events[i]) \/ IsEmpty(events[i])) /\ DepthBefore(events, i) = d
    IN  SelectSeq([i \in 1..Len(events) |-> i], Opens)

\* the positions of the start tags named name, in order
StartsNamed(events, name) ==
    LET Named(i) == IsStart(events[i]) /\ events[i][2] = name
    IN  SelectSeq([i \in 1..Len(events) |-> i], Named)

\* events is one element: a start tag with this name, its content, its end tag
OneElement(events, name) ==
    /\ StackBalanced(events)
    /\ NodesAt(events, 0) = <<1>>
    /\ IsStart(events[1]) /\ events[1][2] = name

\* the regular entries <<key, value>> of the objects the conversion visits
RenderedEntries ==
    UNION {{o[2][i] : i \in {j \in 1..Len(o[2]) : IsRegularKey(o[2][j][1])}} :
              o \in RenderedObjects(json)}

AllObjects(arr) == \A i \in 1..Len(arr) : is_object(arr[i])
IsScalar(v) == ~is_object(v) /\ ~is_array(v)

\* the tag expected on the elements of an array under key K
ElementTag(K, arr) ==
    IF AllObjects(arr) THEN capitalize_word(K) ELSE capitalize_word(K) \o ItemSuffix

----------------------------------------------------------------------------
(* C6: every object rendered as an element (the top-level object with an   *)
(* "@" key, the value of a regular key, an array element) carries, on the  *)
(* start tag of its own element, the attribute n = s for each of its keys  *)
(* "@"+n with a string value s, n not capitalized, and that start tag is   *)
(* written exactly once.  For array elements the statement is made for the *)
(* arrays of scalars and non-empty objects only.                           *)
C6_TopLevel ==
    (is_object(json) /\ StringAttributes(json[2]) # {}) =>
        /\ IsStart(Document[1])
        /\ StringAttributes(json[2]) \subseteq AttrSet(Document[1])
        /\ Count(Document, RootStart) = 1

C6_KeyValue(K, v) ==
    (is_object(v) /\ StringAttributes(v[2]) # {}) =>
        LET written == handle_entry(K, v)
        IN  /\ OneElement(written, capitalize_word(K))
            /\ StringAttributes(v[2]) \subseteq AttrSet(written[1])

C6_ArrayElements(K, v) ==
    (/\ is_array(v)
     /\ \A i \in 1..Len(v[2]) : IsScalar(v[2][i]) \/ (is_object(v[2][i]) /\ ~is_empty_object(v[2][i]))
     /\ \E i \in 1..Len(v[2]) : is_object(v[2][i]) /\ StringAttributes(v[2][i][2]) # {}) =>
        LET written == handle_entry(K, v)
            starts == StartsNamed(written, ElementTag(K, v[2]))
        IN  /\ StackBalanced(written)
            /\ Len(starts) = Len(v[2])
            /\ \A i \in 1..Len(v[2]) :
                  is_object(v[2][i]) =>
                      StringAttributes(v[2][i][2]) \subseteq AttrSet(written[starts[i]])

C6_AttributesOnOwnStartTag ==
    Done =>
        /\ C6_TopLevel
        /\ \A e \in RenderedEntries : C6_KeyValue(e[1], e[2]) /\ C6_ArrayElements(e[1], e[2])

(* C7: an "@" key whose value is not a string (number, boolean, null,      *)
(* array, object, {}) is dropped: no attribute, no child element, no empty *)
(* tag and no text comes from it, and the conversion succeeds.             *)
C7_NonStringAttributeDropped ==
    (pc = "done" /\ json # Malformed) =>
        /\ result[1] = "Ok"
        /\ \A o \in RenderedObjects(json) : \A i \in 1..Len(o[2]) :
              LET key == o[2][i][1]
                  v == o[2][i][2]
                  pushed == pushed_attributes(attributes_of(o[2]))
              IN  (starts_with_at(key) /\ ~is_str(v)) =>
                      /\ handle_entry(key, v) = <<>>
                      /\ \A a \in 1..Len(pushed) : pushed[a][1] # Tail(key)
                      /\ \A n \in 1..Len(Document) :
                            IsTag(Document[n]) => Document[n][2] # key

(* C8: the key $text never produces a child element or an empty tag of its *)
(* own, whatever its value; when its value is a string, that string is the *)
(* one text event that is direct content of the owning element, right      *)
(* after the element's start tag.                                          *)
C8_TextKey ==
    Done =>
        \A o \in RenderedObjects(json) : \A i \in 1..Len(o[2]) :
            LET v == o[2][i][2]
                written == handle_object(o[2], K_k)
                own == IF is_attribute_key(o) THEN 1 ELSE 0
                content == SubSeq(written, own + 1, Len(written))
                DirectText(n) == IsText(content[n]) /\ DepthBefore(content, n) = 0
            IN  o[2][i][1] = TextKey =>
                    /\ handle_entry(TextKey, v) = <<>>
                    /\ \A n \in 1..Len(Document) :
                          IsTag(Document[n]) => Document[n][2] # TextKey
                    /\ is_str(v) =>
                          /\ content[1] = write_content(v[2])
                          /\ SelectSeq([n \in 1..Len(content) |-> n], DirectText) = <<1>>

(* C9: under a regular key K, an array of N >= 1 objects (with or without  *)
(* "@" keys, empty objects included) is written as exactly N consecutive   *)
(* sibling elements named capitalize(K), one per array element, each       *)
(* opened once and closed once, with no tag named capitalize(K)+"Item".    *)
C9_Array(K, v) ==
    (is_array(v) /\ Len(v[2]) >= 1 /\ AllObjects(v[2])) =>
        LET written == handle_entry(K, v)
            nodes == NodesAt(written, 0)
        IN  /\ StackBalanced(written)
            /\ Len(nodes) = Len(v[2])
            /\ \A i \in 1..Len(nodes) :
                  /\ written[nodes[i]][2] = capitalize_word(K)
                  /\ StringAttributes(v[2][i][2]) \subseteq AttrSet(written[nodes[i]])
            /\ \A n \in 1..Len(written) :
                  IsTag(written[n]) => written[n][2] # capitalize_word(K) \o ItemSuffix
            /\ Occurs(written, Document)

C9_ObjectArraySiblings == Done => \A e \in RenderedEntries : C9_Array(e[1], e[2])

(* C10: under a regular key K, every element of a mixed array is written,  *)
(* in array order, as its own element named capitalize(K)+"Item" with one  *)
(* start tag and one matching end tag: around the text or None of a        *)
(* non-object element, and carrying the attributes and children of an      *)
(* object element, wherever the objects sit and whether or not they have   *)
(* "@" keys or are empty.  The statement is made for the mixed arrays with *)
(* no array among their elements.                                          *)
C10_Array(K, v) ==
    (/\ is_array(v)
     /\ contains_objects_and_primitives(v[2])
     /\ \A i \in 1..Len(v[2]) : ~is_array(v[2][i])) =>
        LET written == handle_entry(K, v)
            item_tag == capitalize_word(K) \o ItemSuffix
            starts == StartsNamed(written, item_tag)
            IsItemEnd(e) == e = write_end_tag(item_tag)
        IN  /\ StackBalanced(written)
            /\ Len(starts) = Len(v[2])
            /\ Count(written, IsItemEnd) = Len(v[2])
            /\ \A i \in 1..Len(v[2]) :
                  IF is_object(v[2][i])
                  THEN /\ AttrSet(written[starts[i]]) = StringAttributes(v[2][i][2])
                       /\ DepthBefore(written, starts[i]) = DepthBefore(written, starts[1])
                  ELSE SubSeq(written, starts[i], starts[i] + 2) =
                           <<write_start_tag(item_tag, <<>>)>>
                           \o create_xml_element(v[2][i], K)
                           \o <<write_end_tag(item_tag)>>
            /\ Occurs(written, Document)

C10_MixedArrayItems == Done => \A e \in RenderedEntries : C10_Array(e[1], e[2])

----------------------------------------------------------------------------
(* C11: when the version string cannot be found (Cargo.toml missing or     *)
(* unreadable, not parseable, or without a version entry) the conversion   *)
(* of valid JSON still returns Ok, with a header comment; the version      *)
(* lookup never makes it return an error.                                  *)
VersionUnavailable == get_dependency_version(cargo)[1] = "Err"

C11_VersionLookupNeverFails ==
    (pc = "done" /\ json # Malformed) =>
        /\ result[1] = "Ok"
        /\ result[2][2][1] = "comment"

----------------------------------------------------------------------------
(* C12: for every object with attributes, handle_object writes first the   *)
(* start tag carrying the attributes, then the $text content if it has     *)
(* any, then the elements of the regular keys in the order the keys are    *)
(* iterated.  Every converted object is held to this in the order its Map  *)
(* iterates, and the input object (each object of the inputs is itself an  *)
(* input) in every order in which its keys can sit.  The empty tags        *)
(* written at the object's own level for a {} under an "@" key or under    *)
(* $text (C7, C8) are not elements of regular keys and are left aside.     *)
Reordered(entries, p) == [i \in 1..Len(entries) |-> entries[p[i]]]

\* rest without the empty tags of the object's own level named after an
\* "@" key or after $text
WithoutDroppedKeys(rest) ==
    LET depth[n \in 0..Len(rest)] ==
            IF n = 0 THEN 0
            ELSE depth[n - 1] + (IF IsStart(rest[n]) THEN 1 ELSE IF IsEnd(rest[n]) THEN -1 ELSE 0)
        OfRegularKey(n) ==
            ~(IsEmpty(rest[n]) /\ ~IsRegularKey(rest[n][2]) /\ depth[n - 1] = 0)
        kept == SelectSeq([n \in 1..Len(rest) |-> n], OfRegularKey)
    IN  [n \in 1..Len(kept) |-> rest[kept[n]]]

C12_Shape(written, entries, tag) ==
    LET text == {v \in map_get(entries, TextKey) : is_str(v)}
        t == IF text # {} THEN 1 ELSE 0
        HasRegularKey(entry) == IsRegularKey(entry[1])
        regular == SelectSeq(entries, HasRegularKey)
    IN  /\ IsStart(written[1])
        /\ written[1][2] = capitalize_word(tag)
        /\ AttrSet(written[1]) = StringAttributes(entries)
        /\ t = 1 => written[2] = write_content((CHOOSE v \in text : TRUE)[2])
        /\ WithoutDroppedKeys(SubSeq(written, 2 + t, Len(written))) =
               Concat([i \in 1..Len(regular) |-> handle_entry(regular[i][1], regular[i][2])])

C12_Order(entries, tag) ==
    \A written \in {handle_object(entries, tag)} : C12_Shape(written, entries, tag)

-----------------------------------------------------------------------------
(* C13: for every converted object with two or more string-valued "@"     *)
(* keys, the attributes pushed on its start tag are in the order in which  *)
(* those keys sit in the object, and the document holds a start tag with   *)
(* the attributes in that order, so that the output does not depend on     *)
(* the iteration order of the attribute table.                             *)
KeyOrderAttributes(entries) ==
    LET IsStringAttribute(e) == starts_with_at(e[1]) /\ is_str(e[2])
        picked == SelectSeq(entries, IsStringAttribute)
    IN  [i \in 1..Len(picked) |-> <<Tail(picked[i][1]), picked[i][2][2]>>]

C13_AttributeOrderPreserved ==
    Done =>
        \A o \in RenderedObjects(json) :
            \A ordered \in {KeyOrderAttributes(o[2])} :
                Len(ordered) >= 2 =>
                    /\ pushed_attributes(attributes_of(o[2])) = ordered
                    /\ \E n \in 1..Len(Document) :
                          IsStart(Document[n]) /\ Document[n][3] = ordered

====
